---------------------------- MODULE Spec2Model ----------------------------
(***************************************************************************)
(* The DPLL SAT solver of src/problems/dpll/implementation.py.            *)
(*                                                                         *)
(* The helper functions of the solver are operators with the names they   *)
(* have in the source.  The recursive search dpll() is a state machine    *)
(* with an explicit call stack: one action per segment of dpll()'s body.  *)
(*                                                                         *)
(* Encoding of Python values:                                              *)
(*   Literal           record [var, negated]                               *)
(*   Clause            set of literals (frozenset)                         *)
(*   CNF               sequence of clauses (tuple)                         *)
(*   Model             function from a set of variables to BOOLEAN (dict)  *)
(*   Optional[X]       None is {} and a value x is {x}                     *)
(* The iteration order of a frozenset and of the caller's dict is not     *)
(* fixed by the program: wherever the code iterates over one, the model   *)
(* takes every order.                                                      *)
(***************************************************************************)
EXTENDS Integers, Sequences, FiniteSets, TLC

\* Bounds of the model: variables are 0 .. NumVars-1.
NumVars == 3
\* Largest number of clauses of an input formula.
MaxClauses == 3
\* Largest number of literals of an input clause.
MaxClauseLen == 2
\* Largest number of variables assigned by the caller's starting model, for
\* a formula of MaxClauses clauses; one more for every clause less.
MaxModelVars == 1

\* Largest number of characters of a token given to parse_literal.
MaxTokenLen == 4
\* Integers given to parse_literal and to Literal() are -MaxInt .. MaxInt.
MaxInt == 12
\* Largest number of clauses and of literals in a clause of a formula given
\* in a convenience form.
MaxRawClauses == 2
MaxRawLen == 2

Vars == 0 .. (NumVars - 1)

None == {}
Some(x) == {x}
Get(o) == CHOOSE x \in o : TRUE

-----------------------------------------------------------------------------
(* Data types *)

Literal(var, negated) == [var |-> var, negated |-> negated]

Literals == [var : Vars, negated : BOOLEAN]

negate(l) == Literal(l.var, ~l.negated)

\* dataclass(order=True): literals compare as the tuples (var, negated),
\* and False < True.
LitLess(a, b) ==
    \/ a.var < b.var
    \/ (a.var = b.var /\ ~a.negated /\ b.negated)

\* min() over a non-empty collection of literals.
MinLit(S) == CHOOSE l \in S : \A k \in S : l = k \/ LitLess(l, k)

\* min(seq, key=len) returning the last clause of least length.
MinByLenLast(seq) ==
    seq[CHOOSE i \in DOMAIN seq : \A j \in DOMAIN seq :
            \/ Cardinality(seq[i]) < Cardinality(seq[j])
            \/ (Cardinality(seq[i]) = Cardinality(seq[j]) /\ i >= j)]

\* min(seq, key=len) over a non-empty sequence of clauses: the first clause
\* of least length.
MinByLen(seq) ==
    seq[CHOOSE i \in DOMAIN seq : \A j \in DOMAIN seq :
            \/ Cardinality(seq[i]) < Cardinality(seq[j])
            \/ (Cardinality(seq[i]) = Cardinality(seq[j]) /\ i <= j)]

EmptyModel == [v \in {} |-> TRUE]

AllModels == UNION {[D -> BOOLEAN] : D \in SUBSET Vars}

VarsOf(formula) == {l.var : l \in UNION {formula[i] : i \in DOMAIN formula}}

\* The orders in which the elements of a finite set can be listed.
Orderings(S) ==
    {s \in [1 .. Cardinality(S) -> S] :
        \A i, j \in 1 .. Cardinality(S) : i # j => s[i] # s[j]}

-----------------------------------------------------------------------------
(* Parsing / normalization *)

\* A str is the sequence of its characters, each a string of length one.
\* The characters with a decimal value, the value of DecimalDigits[i] being
\* i - 1.
DecimalDigits == <<"0", "1", "2", "3", "4", "5", "6", "7", "8", "9">>

\* Characters that str.isdigit() accepts and int() rejects: digits without
\* a decimal value, such as the superscript two.
OtherDigits == {"²"}

\* Characters that str.strip() removes.
Whitespace == {" "}

IsDecimal(ch) == \E i \in DOMAIN DecimalDigits : DecimalDigits[i] = ch

DigitValue(ch) == (CHOOSE i \in DOMAIN DecimalDigits : DecimalDigits[i] = ch) - 1

\* s.strip(): the whitespace at both ends removed.
RECURSIVE strip(_)
strip(s) ==
    IF s = <<>>
    THEN s
    ELSE IF Head(s) \in Whitespace
    THEN strip(Tail(s))
    ELSE IF s[Len(s)] \in Whitespace
    THEN strip(SubSeq(s, 1, Len(s) - 1))
    ELSE s

\* s.isdigit(): at least one character, and every character a digit.
isdigit(s) ==
    /\ Len(s) > 0
    /\ \A i \in DOMAIN s : IsDecimal(s[i]) \/ s[i] \in OtherDigits

\* The number written by a sequence of decimal digits.
RECURSIVE DecimalValue(_)
DecimalValue(s) ==
    IF s = <<>>
    THEN 0
    ELSE 10 * DecimalValue(SubSeq(s, 1, Len(s) - 1)) + DigitValue(s[Len(s)])

\* int(s) for an s without sign, space or underscore: None where int()
\* raises ValueError.
int(s) ==
    IF Len(s) > 0 /\ \A i \in DOMAIN s : IsDecimal(s[i])
    THEN Some(DecimalValue(s))
    ELSE None

\* str(n) of an int n >= 0: its decimal digits, no leading zero.
RECURSIVE str(_)
str(n) ==
    IF n < 10
    THEN <<DecimalDigits[n + 1]>>
    ELSE str(n \div 10) \o <<DecimalDigits[(n % 10) + 1]>>

\* __init__ without __post_init__: any var is taken.
__init__unchecked(var, negated) == Some(Literal(var, negated))

\* Literal(var, negated) as the program constructs it, __post_init__
\* included: None where the construction raises ValueError.
__init__(var, negated) ==
    IF var < 0
    THEN None
    ELSE Some(Literal(var, negated))

\* __str__ writing the signed integer: the sign of a negated variable 0 is
\* lost, as -0 is 0.
__str__signed_int(self) ==
    IF self.negated /\ self.var # 0
    THEN <<"-">> \o str(self.var)
    ELSE str(self.var)

\* Literal.__str__
__str__(self) ==
    IF self.negated
    THEN <<"-">> \o str(self.var)
    ELSE str(self.var)

\* A literal-like value carries its Python type: a Literal object is
\* [type |-> "Literal", var, negated], an int is [type |-> "int", value], a
\* str is [type |-> "str", chars]; a value of any other type, [type |->
\* "float"] or [type |-> "NoneType"], carries its type alone.
LiteralObject(l) == [type |-> "Literal", var |-> l.var, negated |-> l.negated]

IntObject(n) == [type |-> "int", value |-> n]

StrObject(s) == [type |-> "str", chars |-> s]

\* parse_literal without x.strip().
parse_literal_no_strip(x) ==
    IF x.type = "Literal"
    THEN Some(Literal(x.var, x.negated))
    ELSE IF x.type = "int"
    THEN IF x.value < 0
         THEN __init__(-x.value, TRUE)
         ELSE __init__(x.value, FALSE)
    ELSE IF x.type = "str"
    THEN LET s == x.chars
         IN  IF s = <<>>
             THEN None
             ELSE IF s[1] = "-"
             THEN LET v == Tail(s)
                  IN  IF ~isdigit(v)
                      THEN None
                      ELSE IF int(v) = None
                      THEN None
                      ELSE __init__(Get(int(v)), TRUE)
             ELSE IF ~isdigit(s)
             THEN None
             ELSE IF int(s) = None
             THEN None
             ELSE __init__(Get(int(s)), FALSE)
    ELSE None

\* The parsed literal, or None where parse_literal raises: ValueError for a
\* token, TypeError for a value of an unsupported type.
parse_literal(x) ==
    IF x.type = "Literal"
    THEN Some(Literal(x.var, x.negated))
    ELSE IF x.type = "int"
    THEN IF x.value < 0
         THEN __init__(-x.value, TRUE)
         ELSE __init__(x.value, FALSE)
    ELSE IF x.type = "str"
    THEN LET s == strip(x.chars)
         IN  IF s = <<>>
             THEN None
             ELSE IF s[1] = "-"
             THEN LET v == Tail(s)
                  IN  IF ~isdigit(v)
                      THEN None
                      ELSE IF int(v) = None
                      THEN None
                      ELSE __init__(Get(int(v)), TRUE)
             ELSE IF ~isdigit(s)
             THEN None
             ELSE IF int(s) = None
             THEN None
             ELSE __init__(Get(int(s)), FALSE)
    ELSE None

\* make_clause of a sequence of literal-likes: None where a literal raises.
make_clause(lits) ==
    IF \E i \in DOMAIN lits : parse_literal(lits[i]) = None
    THEN None
    ELSE Some({Get(parse_literal(lits[i])) : i \in DOMAIN lits})

\* A literal-like as an element of a clause: a Literal object is the
\* literal, any other value stays the value it is.
AsValue(x) ==
    IF x.type = "Literal"
    THEN Literal(x.var, x.negated)
    ELSE x

\* make_cnf of a sequence of clause-likes, each [type, items] with its
\* Python type: a frozenset is taken as it is, whatever its elements; a
\* set goes through make_clause in its iteration order, a list or a tuple
\* in its order.  None where a literal raises.
make_cnf(clauses) ==
    LET normalized(c) ==
            IF c.type = "frozenset"
            THEN Some({AsValue(x) : x \in c.items})
            ELSE IF c.type = "set"
            THEN make_clause(CHOOSE o \in Orderings(c.items) : TRUE)
            ELSE make_clause(c.items)
    IN  IF \E i \in DOMAIN clauses : normalized(clauses[i]) = None
        THEN None
        ELSE Some([i \in DOMAIN clauses |-> Get(normalized(clauses[i]))])

-----------------------------------------------------------------------------
(* Core DPLL helpers *)

RECURSIVE _apply_literal_loop(_, _, _, _)
_apply_literal_loop(formula, lit_true, i, new_clauses) ==
    IF i > Len(formula)
    THEN Some(new_clauses)
    ELSE LET clause == formula[i]
             lit_false == negate(lit_true)
         IN  IF lit_true \in clause
             THEN _apply_literal_loop(formula, lit_true, i + 1, new_clauses)
             ELSE IF lit_false \in clause
             THEN LET reduced == {l \in clause : l # lit_false}
                  IN  IF Cardinality(reduced) = 0
                      THEN None
                      ELSE _apply_literal_loop(formula, lit_true, i + 1,
                                               Append(new_clauses, reduced))
             ELSE _apply_literal_loop(formula, lit_true, i + 1,
                                      Append(new_clauses, clause))

\* _apply_literal with the loop ending one clause early: the last clause of
\* a formula of two or more clauses is never looked at.
_apply_literal_short(formula, lit_true) ==
    IF Len(formula) >= 2
    THEN _apply_literal_loop(SubSeq(formula, 1, Len(formula) - 1), lit_true,
                             1, <<>>)
    ELSE _apply_literal_loop(formula, lit_true, 1, <<>>)

\* _apply_literal dropping every clause that mentions lit_true's variable,
\* in either polarity.
_apply_literal_by_var(formula, lit_true) ==
    Some(SelectSeq(formula,
                   LAMBDA clause : \A l \in clause : l.var # lit_true.var))

\* _apply_literal without the conflict test of lines 156-157: a clause
\* emptied by the removal stays in the formula.
_apply_literal_no_conflict(formula, lit_true) ==
    LET kept == SelectSeq(formula, LAMBDA clause : lit_true \notin clause)
    IN  Some([i \in DOMAIN kept |-> kept[i] \ {negate(lit_true)}])

\* _apply_literal keeping the clauses that lit_true satisfies (lines 153-154
\* left out).
_apply_literal_keep_satisfied(formula, lit_true) ==
    IF \E i \in DOMAIN formula : formula[i] = {negate(lit_true)}
    THEN None
    ELSE Some([i \in DOMAIN formula |-> formula[i] \ {negate(lit_true)}])

_apply_literal(formula, lit_true) ==
    _apply_literal_loop(formula, lit_true, 1, <<>>)

\* _assign with the polarity lost: value = lit_true.negated.
_assign_flipped(model, lit_true) ==
    LET value == lit_true.negated
    IN  IF lit_true.var \notin DOMAIN model
        THEN [ok |-> TRUE, model |-> (lit_true.var :> value) @@ model]
        ELSE [ok |-> (model[lit_true.var] = value), model |-> model]

\* _assign storing the value whether or not the variable has one.
_assign_overwrite(model, lit_true) ==
    LET value == ~lit_true.negated
    IN  [ok |-> TRUE,
         model |-> [v \in DOMAIN model \cup {lit_true.var} |->
                       IF v = lit_true.var THEN value ELSE model[v]]]

\* _assign mutates the model and returns a bool: here the pair of both.
_assign(model, lit_true) ==
    LET value == ~lit_true.negated
    IN  IF lit_true.var \notin DOMAIN model
        THEN [ok |-> TRUE, model |-> (lit_true.var :> value) @@ model]
        ELSE [ok |-> (model[lit_true.var] = value), model |-> model]

\* _find_unit_literal looking at the first clause alone.
_find_unit_literal_first_clause(formula) ==
    IF formula # <<>> /\ Cardinality(formula[1]) = 1
    THEN Some(CHOOSE l \in formula[1] : TRUE)
    ELSE None

_find_unit_literal(formula) ==
    LET units == {i \in DOMAIN formula : Cardinality(formula[i]) = 1}
    IN  IF units = {}
        THEN None
        ELSE LET first == CHOOSE i \in units : \A j \in units : i <= j
             IN  Some(CHOOSE l \in formula[first] : TRUE)

\* _pure_literals taking a variable for pure as soon as it occurs
\* un-negated: len(negs) == 1 not tested.
_pure_literals_any_polarity(formula, model) ==
    LET occurring == {l \in UNION {formula[i] : i \in DOMAIN formula} :
                          l.var \notin DOMAIN model}
    IN  {l \in occurring : ~l.negated}
            \cup {l \in occurring : l.negated /\ negate(l) \notin occurring}

\* _pure_literals counting a variable that does not occur in the formula
\* as pure.
_pure_literals_with_absent(formula, model) ==
    LET occurring == {l \in UNION {formula[i] : i \in DOMAIN formula} :
                          l.var \notin DOMAIN model}
    IN  {l \in occurring : negate(l) \notin occurring}
            \cup {Literal(var, FALSE) :
                    var \in Vars \ (DOMAIN model \cup {l.var : l \in occurring})}

\* The list of pure literals, as the set of its elements: its order is the
\* iteration order of the clauses' frozensets.
_pure_literals(formula, model) ==
    LET occurring == {l \in UNION {formula[i] : i \in DOMAIN formula} :
                          l.var \notin DOMAIN model}
        polarity(var) == {l.negated : l \in {k \in occurring : k.var = var}}
    IN  {Literal(var, negated) : <<var, negated>> \in
            {p \in {l.var : l \in occurring} \X BOOLEAN :
                polarity(p[1]) = {p[2]}}}

\* The chosen literal, or None where the code asks min() for the least
\* element of an empty collection (a ValueError).
_choose_branch_literal(formula, model) ==
    LET candidate_clauses ==
            SelectSeq(formula,
                      LAMBDA clause : \E l \in clause : l.var \notin DOMAIN model)
    IN  IF candidate_clauses = <<>>
        THEN IF formula = <<>>
             THEN None
             ELSE LET clause == MinByLen(formula)
                  IN  IF clause = {} THEN None ELSE Some(MinLit(clause))
        ELSE LET clause == MinByLen(candidate_clauses)
                 unassigned == {l \in clause : l.var \notin DOMAIN model}
             IN  Some(MinLit(unassigned))

\* evaluate_cnf counting a literal of an unassigned variable as true.
evaluate_cnf_unknown_true(formula, model) ==
    \A i \in DOMAIN formula :
        \E lit \in formula[i] :
            \/ lit.var \notin DOMAIN model
            \/ LET val == model[lit.var]
                   lit_val == IF lit.negated THEN ~val ELSE val
               IN  lit_val

evaluate_cnf(formula, model) ==
    \A i \in DOMAIN formula :
        \E lit \in formula[i] :
            /\ lit.var \in DOMAIN model
            /\ LET val == model[lit.var]
                   lit_val == IF lit.negated THEN ~val ELSE val
               IN  lit_val

\* ApplyModel with lit_true = Literal(var, negated=value).
RECURSIVE ApplyModelFlipped(_, _, _, _)
ApplyModelFlipped(formula, model, order, i) ==
    IF i > Len(order)
    THEN Some(formula)
    ELSE LET var == order[i]
             value == model[var]
             lit_true == Literal(var, value)
             applied == _apply_literal(formula, lit_true)
         IN  IF applied = None
             THEN None
             ELSE ApplyModelFlipped(Get(applied), model, order, i + 1)

\* Lines 271-275 of dpll: the starting model applied, one assignment after
\* the other in the dict's order.
RECURSIVE ApplyModel(_, _, _, _)
ApplyModel(formula, model, order, i) ==
    IF i > Len(order)
    THEN Some(formula)
    ELSE LET var == order[i]
             value == model[var]
             lit_true == Literal(var, ~value)
             applied == _apply_literal(formula, lit_true)
         IN  IF applied = None
             THEN None
             ELSE ApplyModel(Get(applied), model, order, i + 1)

-----------------------------------------------------------------------------
(* The functions with loops, as functions of their arguments.  A function  *)
(* whose course depends on an iteration order the program does not fix is  *)
(* the SET of the values it can return.                                     *)

\* _unit_propagate mutates the model and returns Optional[CNF]: here None,
\* or the returned formula with the model as the call leaves it.
RECURSIVE _unit_propagate(_, _)
_unit_propagate(formula, model) ==
    LET unit == _find_unit_literal(formula)
    IN  IF unit = None
        THEN Some([formula |-> formula, model |-> model])
        ELSE LET a == _assign(model, Get(unit))
                 applied == _apply_literal(formula, Get(unit))
             IN  IF ~a.ok
                 THEN None
                 ELSE IF applied = None
                 THEN None
                 ELSE _unit_propagate(Get(applied), a.model)

\* The values _eliminate_pure_literals can return, over the orders of the
\* list of pure literals; each is None or the returned formula with the
\* model as the call leaves it.  PureLoop is the for loop of lines 219-224
\* with the literals in todo still to come.
RECURSIVE _eliminate_pure_literals(_, _), PureLoop(_, _, _)
_eliminate_pure_literals(formula, model) ==
    LET found == _pure_literals(formula, model)
    IN  IF found = {}
        THEN {Some([formula |-> formula, model |-> model])}
        ELSE PureLoop(formula, model, found)

\* PureLoop without the outer while loop (line 215): one pass over the pure
\* literals, then return.
RECURSIVE PureLoopOnePass(_, _, _)
PureLoopOnePass(formula, model, todo) ==
    IF todo = {}
    THEN {Some([formula |-> formula, model |-> model])}
    ELSE UNION {
            LET a == _assign(model, l)
                applied == _apply_literal(formula, l)
            IN  IF ~a.ok
                THEN {None}
                ELSE IF applied = None
                THEN {None}
                ELSE PureLoopOnePass(Get(applied), a.model, todo \ {l})
            : l \in todo}

PureLoop(formula, model, todo) ==
    IF todo = {}
    THEN _eliminate_pure_literals(formula, model)
    ELSE UNION {
            LET a == _assign(model, l)
                applied == _apply_literal(formula, l)
            IN  IF ~a.ok
                THEN {None}
                ELSE IF applied = None
                THEN {None}
                ELSE PureLoop(Get(applied), a.model, todo \ {l})
            : l \in todo}

\* What a call of dpll comes to: tag "model" with the returned model, tag
\* "None", or tag "ValueError" where min() of an empty collection is asked
\* for; trail lists the branch literals tried, in the order of the recursive
\* calls.
Outcome(tag, model, trail) == [tag |-> tag, model |-> model, trail |-> trail]

Prefixed(prefix, outcomes) ==
    {Outcome(o.tag, o.model, prefix \o o.trail) : o \in outcomes}

\* The values dpll(formula, model) can come to.  Simplify is the loop of
\* lines 284-296 entered with `cnf`; Branch is lines 302-313 from position
\* i of the loop over (lit, lit.negate()).
RECURSIVE dpll(_, _), Simplify(_, _), Branch(_, _, _, _)
dpll(formula, model) ==
    UNION {
        LET applied == ApplyModel(formula, model, order, 1)
        IN  IF applied = None
            THEN {Outcome("None", EmptyModel, <<>>)}
            ELSE LET c == Get(applied)
                 IN  IF c = <<>>
                     THEN {Outcome("model", model, <<>>)}
                     ELSE IF \E i \in DOMAIN c : Cardinality(c[i]) = 0
                     THEN {Outcome("None", EmptyModel, <<>>)}
                     ELSE Simplify(c, model)
        : order \in Orderings(DOMAIN model)}

Simplify(c, model) ==
    LET propagated == _unit_propagate(c, model)
    IN  IF propagated = None
        THEN {Outcome("None", EmptyModel, <<>>)}
        ELSE UNION {
                IF e = None
                THEN {Outcome("None", EmptyModel, <<>>)}
                ELSE LET s == Get(e)
                     IN  IF s.formula = <<>>
                         THEN {Outcome("model", s.model, <<>>)}
                         ELSE IF s.formula = c
                         THEN LET chosen == _choose_branch_literal(s.formula, s.model)
                              IN  IF chosen = None
                                  THEN {Outcome("ValueError", EmptyModel, <<>>)}
                                  ELSE Branch(s.formula, s.model, Get(chosen), 0)
                         ELSE Simplify(s.formula, s.model)
                : e \in _eliminate_pure_literals(Get(propagated).formula,
                                                 Get(propagated).model)}

Branch(c, model, chosen, i) ==
    IF i >= 2
    THEN {Outcome("None", EmptyModel, <<>>)}
    ELSE LET branch_lit == IF i = 0 THEN chosen ELSE negate(chosen)
             a == _assign(model, branch_lit)
             new_cnf == _apply_literal(c, branch_lit)
         IN  IF ~a.ok \/ new_cnf = None
             THEN Branch(c, model, chosen, i + 1)
             ELSE UNION {
                     IF o.tag = "None"
                     THEN Prefixed(<<branch_lit>> \o o.trail,
                                   Branch(c, model, chosen, i + 1))
                     ELSE {Outcome(o.tag, o.model, <<branch_lit>> \o o.trail)}
                     : o \in dpll(Get(new_cnf), a.model)}

\* is_satisfiable(formula): the values it can return.
is_satisfiable(formula) == {o.tag # "None" : o \in dpll(formula, EmptyModel)}

-----------------------------------------------------------------------------
(* Inputs *)

InputClauses == {c \in SUBSET Literals : Cardinality(c) <= MaxClauseLen}

\* The full clauses over all variables but the last: with one clause more
\* than MaxClauses they give the formulas in which both polarities of a
\* branch literal fail.
FullClauses ==
    {c \in InputClauses :
        /\ Cardinality(c) = MaxClauseLen
        /\ \A l \in c : l.var < NumVars - 1}

InputFormulas ==
    UNION {[1 .. n -> InputClauses] : n \in 0 .. MaxClauses}
        \cup [1 .. MaxClauses + 1 -> FullClauses]

\* The starting models given with formula: the shorter the formula, the
\* more variables the model may assign.
InputModels(formula) ==
    {mm \in AllModels :
        Cardinality(DOMAIN mm) <= MaxModelVars + MaxClauses - Len(formula)}

-----------------------------------------------------------------------------
(* The search as a state machine *)

VARIABLES
    f,              \* the formula given to the outermost dpll call
    m,              \* the starting model given to the outermost dpll call
    pc,             \* position of the running dpll call
    cnf,            \* local cnf of the running call
    current_model,  \* local current_model of the running call
    before,         \* local before of the running call
    pures,          \* pure literals still to process in the for loop (line 219)
    lit,            \* local lit of the running call (line 299)
    idx,            \* position in the loop over (lit, lit.negate()) (line 302)
    stack,          \* the suspended callers, outermost first
    result,         \* value returned by the call that ended last
    trail,          \* history: the branch literals of the recursive calls made
    verdict,        \* value returned by evaluate_cnf
    arg,            \* argument of a parsing / normalization call, as given
    ret             \* what the parsing / normalization call came to

vars ==
    <<f, m, pc, cnf, current_model, before, pures, lit, idx, stack, result,
      trail, verdict, arg, ret>>

\* No parsing / normalization call is modelled in this run.
NoArg == <<>>

NoLit == Literal(0, FALSE)

Init ==
    /\ f \in InputFormulas
    /\ m \in InputModels(f)
    /\ pc = "call"
    /\ cnf = f
    /\ current_model = m
    /\ before = <<>>
    /\ pures = {}
    /\ lit = NoLit
    /\ idx = 0
    /\ stack = <<>>
    /\ result = None
    /\ trail = <<>>
    /\ verdict = FALSE
    /\ arg = NoArg
    /\ ret = None

\* The running call returns value r.
ReturnValue(r) ==
    /\ pc' = "return"
    /\ result' = r

\* Enter without the test for an empty clause (lines 280-281).
EnterNoEmptyClauseTest ==
    /\ pc = "call"
    /\ \E order \in Orderings(DOMAIN current_model) :
         LET applied == ApplyModel(cnf, current_model, order, 1)
         IN  IF applied = None
             THEN /\ ReturnValue(None)
                  /\ UNCHANGED <<cnf, before>>
             ELSE LET c == Get(applied)
                  IN  IF c = <<>>
                      THEN /\ ReturnValue(Some(current_model))
                           /\ cnf' = c
                           /\ UNCHANGED before
                      ELSE IF FALSE
                      THEN /\ ReturnValue(None)
                           /\ cnf' = c
                           /\ UNCHANGED before
                      ELSE /\ cnf' = c
                           /\ before' = c
                           /\ pc' = "unit"
                           /\ UNCHANGED result
    /\ UNCHANGED <<arg, ret, f, m, current_model, pures, lit, idx, stack, trail, verdict>>

\* Enter with the first base case returning None (line 279).
EnterEmptyIsNone ==
    /\ pc = "call"
    /\ \E order \in Orderings(DOMAIN current_model) :
         LET applied == ApplyModel(cnf, current_model, order, 1)
         IN  IF applied = None
             THEN /\ ReturnValue(None)
                  /\ UNCHANGED <<cnf, before>>
             ELSE LET c == Get(applied)
                  IN  IF c = <<>>
                      THEN /\ ReturnValue(None)
                           /\ cnf' = c
                           /\ UNCHANGED before
                      ELSE IF \E i \in DOMAIN c : Cardinality(c[i]) = 0
                      THEN /\ ReturnValue(None)
                           /\ cnf' = c
                           /\ UNCHANGED before
                      ELSE /\ cnf' = c
                           /\ before' = c
                           /\ pc' = "unit"
                           /\ UNCHANGED result
    /\ UNCHANGED <<arg, ret, f, m, current_model, pures, lit, idx, stack, trail, verdict>>

\* Enter without the loop of lines 271-275: the starting model is kept and
\* not applied to the formula.
EnterModelNotApplied ==
    /\ pc = "call"
    /\ LET c == cnf
       IN  IF c = <<>>
           THEN /\ ReturnValue(Some(current_model))
                /\ UNCHANGED <<cnf, before>>
           ELSE IF \E i \in DOMAIN c : Cardinality(c[i]) = 0
           THEN /\ ReturnValue(None)
                /\ UNCHANGED <<cnf, before>>
           ELSE /\ before' = c
                /\ pc' = "unit"
                /\ UNCHANGED <<cnf, result>>
    /\ UNCHANGED <<arg, ret, f, m, current_model, pures, lit, idx, stack, trail, verdict>>

\* dpll, lines 267-281: the starting model is applied, then the base cases.
Enter ==
    /\ pc = "call"
    /\ \E order \in Orderings(DOMAIN current_model) :
         LET applied == ApplyModel(cnf, current_model, order, 1)
         IN  IF applied = None
             THEN /\ ReturnValue(None)
                  /\ UNCHANGED <<cnf, before>>
             ELSE LET c == Get(applied)
                  IN  IF c = <<>>
                      THEN /\ ReturnValue(Some(current_model))
                           /\ cnf' = c
                           /\ UNCHANGED before
                      ELSE IF \E i \in DOMAIN c : Cardinality(c[i]) = 0
                      THEN /\ ReturnValue(None)
                           /\ cnf' = c
                           /\ UNCHANGED before
                      ELSE /\ cnf' = c
                           /\ before' = c
                           /\ pc' = "unit"
                           /\ UNCHANGED result
    /\ UNCHANGED <<arg, ret, f, m, current_model, pures, lit, idx, stack, trail, verdict>>

\* UnitStep without the assignment of line 191: the unit literal is applied
\* to the formula and the model stays as it is.
UnitStepNoAssign ==
    /\ pc = "unit"
    /\ LET unit == _find_unit_literal(cnf)
       IN  IF unit = None
           THEN /\ pc' = "pure"
                /\ UNCHANGED <<cnf, current_model, result>>
           ELSE LET applied == _apply_literal(cnf, Get(unit))
                IN  IF applied = None
                    THEN /\ ReturnValue(None)
                         /\ UNCHANGED <<cnf, current_model>>
                    ELSE /\ cnf' = Get(applied)
                         /\ UNCHANGED <<pc, current_model, result>>
    /\ UNCHANGED <<arg, ret, f, m, before, pures, lit, idx, stack, trail, verdict>>

\* UnitStep of a call that works on the caller's dict (current_model = model
\* in place of the copy of line 268): the outermost call writes into m.
UnitStepOnCallersDict ==
    /\ pc = "unit"
    /\ LET unit == _find_unit_literal(cnf)
       IN  IF unit = None
           THEN /\ pc' = "pure"
                /\ UNCHANGED <<cnf, current_model, result, m>>
           ELSE LET a == _assign(current_model, Get(unit))
                    applied == _apply_literal(cnf, Get(unit))
                IN  IF ~a.ok
                    THEN /\ ReturnValue(None)
                         /\ UNCHANGED <<cnf, current_model, m>>
                    ELSE IF applied = None
                    THEN /\ ReturnValue(None)
                         /\ current_model' = a.model
                         /\ m' = IF stack = <<>> THEN a.model ELSE m
                         /\ UNCHANGED cnf
                    ELSE /\ cnf' = Get(applied)
                         /\ current_model' = a.model
                         /\ m' = IF stack = <<>> THEN a.model ELSE m
                         /\ UNCHANGED <<pc, result>>
    /\ UNCHANGED <<arg, ret, f, before, pures, lit, idx, stack, trail, verdict>>

\* _unit_propagate, lines 187-195: one iteration of its loop.
UnitStep ==
    /\ pc = "unit"
    /\ LET unit == _find_unit_literal(cnf)
       IN  IF unit = None
           THEN /\ pc' = "pure"
                /\ UNCHANGED <<cnf, current_model, result>>
           ELSE LET a == _assign(current_model, Get(unit))
                    applied == _apply_literal(cnf, Get(unit))
                IN  IF ~a.ok
                    THEN /\ ReturnValue(None)
                         /\ UNCHANGED <<cnf, current_model>>
                    ELSE IF applied = None
                    THEN /\ ReturnValue(None)
                         /\ current_model' = a.model
                         /\ UNCHANGED cnf
                    ELSE /\ cnf' = Get(applied)
                         /\ current_model' = a.model
                         /\ UNCHANGED <<pc, result>>
    /\ UNCHANGED <<arg, ret, f, m, before, pures, lit, idx, stack, trail, verdict>>

\* PureScan finding no pure literal: pure-literal elimination is skipped.
PureScanNothingPure ==
    /\ pc = "pure"
    /\ pures' = {}
    /\ pc' = "check"
    /\ UNCHANGED <<arg, ret, f, m, cnf, current_model, before, lit, idx, stack, result,
                   trail, verdict>>

\* _eliminate_pure_literals, lines 216-218: the pure literals are collected.
PureScan ==
    /\ pc = "pure"
    /\ pures' = _pure_literals(cnf, current_model)
    /\ pc' = IF pures' = {} THEN "check" ELSE "pure_apply"
    /\ UNCHANGED <<arg, ret, f, m, cnf, current_model, before, lit, idx, stack, result,
                   trail, verdict>>

\* PureApply skipping a pure literal whose variable has left the formula.
PureApplySkipStale ==
    /\ pc = "pure_apply"
    /\ \E l \in pures :
         LET a == _assign(current_model, l)
             applied == _apply_literal(cnf, l)
         IN  IF l.var \notin VarsOf(cnf)
             THEN /\ pures' = pures \ {l}
                  /\ pc' = IF pures' = {} THEN "pure" ELSE "pure_apply"
                  /\ UNCHANGED <<cnf, current_model, result>>
             ELSE IF ~a.ok
             THEN /\ ReturnValue(None)
                  /\ UNCHANGED <<cnf, current_model, pures>>
             ELSE IF applied = None
             THEN /\ ReturnValue(None)
                  /\ current_model' = a.model
                  /\ UNCHANGED <<cnf, pures>>
             ELSE /\ cnf' = Get(applied)
                  /\ current_model' = a.model
                  /\ pures' = pures \ {l}
                  /\ pc' = IF pures' = {} THEN "pure" ELSE "pure_apply"
                  /\ UNCHANGED result
    /\ UNCHANGED <<arg, ret, f, m, before, lit, idx, stack, trail, verdict>>

\* _eliminate_pure_literals, lines 219-224: one iteration of the for loop.
PureApply ==
    /\ pc = "pure_apply"
    /\ \E l \in pures :
         LET a == _assign(current_model, l)
             applied == _apply_literal(cnf, l)
         IN  IF ~a.ok
             THEN /\ ReturnValue(None)
                  /\ UNCHANGED <<cnf, current_model, pures>>
             ELSE IF applied = None
             THEN /\ ReturnValue(None)
                  /\ current_model' = a.model
                  /\ UNCHANGED <<cnf, pures>>
             ELSE /\ cnf' = Get(applied)
                  /\ current_model' = a.model
                  /\ pures' = pures \ {l}
                  /\ pc' = IF pures' = {} THEN "pure" ELSE "pure_apply"
                  /\ UNCHANGED result
    /\ UNCHANGED <<arg, ret, f, m, before, lit, idx, stack, trail, verdict>>

\* LoopCheck without the test for the empty formula (lines 293-294).
LoopCheckNoEmptyTest ==
    /\ pc = "check"
    /\ IF FALSE
       THEN /\ ReturnValue(Some(current_model))
            /\ UNCHANGED before
       ELSE IF cnf = before
       THEN /\ pc' = "choose"
            /\ UNCHANGED <<before, result>>
       ELSE /\ before' = cnf
            /\ pc' = "unit"
            /\ UNCHANGED result
    /\ UNCHANGED <<arg, ret, f, m, cnf, current_model, pures, lit, idx, stack, trail,
                   verdict>>

\* LoopCheck without the break of lines 295-296: a round that changes
\* nothing is followed by another round.
LoopCheckNoBreak ==
    /\ pc = "check"
    /\ IF cnf = <<>>
       THEN /\ ReturnValue(Some(current_model))
            /\ UNCHANGED before
       ELSE /\ before' = cnf
            /\ pc' = "unit"
            /\ UNCHANGED result
    /\ UNCHANGED <<arg, ret, f, m, cnf, current_model, pures, lit, idx, stack, trail,
                   verdict>>

\* dpll, lines 293-296 and 285: the end of one round of the simplification
\* loop.
LoopCheck ==
    /\ pc = "check"
    /\ IF cnf = <<>>
       THEN /\ ReturnValue(Some(current_model))
            /\ UNCHANGED before
       ELSE IF cnf = before
       THEN /\ pc' = "choose"
            /\ UNCHANGED <<before, result>>
       ELSE /\ before' = cnf
            /\ pc' = "unit"
            /\ UNCHANGED result
    /\ UNCHANGED <<arg, ret, f, m, cnf, current_model, pures, lit, idx, stack, trail,
                   verdict>>

\* dpll, line 299.
Choose ==
    /\ pc = "choose"
    /\ LET chosen == _choose_branch_literal(cnf, current_model)
       IN  IF chosen = None
           THEN /\ pc' = "raised"
                /\ UNCHANGED <<lit, idx>>
           ELSE /\ lit' = Get(chosen)
                /\ idx' = 0
                /\ pc' = "try"
    /\ UNCHANGED <<arg, ret, f, m, cnf, current_model, before, pures, stack, result,
                   trail, verdict>>

\* Try with the loop over (lit,) alone: the negation is never tried.
TryFirstOnly ==
    /\ pc = "try"
    /\ IF idx >= 1
       THEN /\ ReturnValue(None)
            /\ UNCHANGED <<cnf, current_model, before, idx, stack, trail>>
       ELSE LET branch_lit == IF idx = 0 THEN lit ELSE negate(lit)
                a == _assign(current_model, branch_lit)
                new_cnf == _apply_literal(cnf, branch_lit)
            IN  IF ~a.ok \/ new_cnf = None
                THEN /\ idx' = idx + 1
                     /\ UNCHANGED <<pc, cnf, current_model, before, stack, result,
                                    trail>>
                ELSE /\ stack' = Append(stack,
                            [cnf |-> cnf, current_model |-> current_model,
                             lit |-> lit, idx |-> idx])
                     /\ cnf' = Get(new_cnf)
                     /\ current_model' = a.model
                     /\ trail' = Append(trail, branch_lit)
                     /\ pc' = "call"
                     /\ UNCHANGED <<before, idx, result>>
    /\ UNCHANGED <<arg, ret, f, m, pures, lit, verdict>>

\* Try with new_model = current_model in place of the copy of line 303:
\* the assignment of the branch literal is made in the caller's model.
TryNoCopy ==
    /\ pc = "try"
    /\ IF idx >= 2
       THEN /\ ReturnValue(None)
            /\ UNCHANGED <<cnf, current_model, before, idx, stack, trail>>
       ELSE LET branch_lit == IF idx = 0 THEN lit ELSE negate(lit)
                a == _assign(current_model, branch_lit)
                new_cnf == _apply_literal(cnf, branch_lit)
            IN  IF ~a.ok \/ new_cnf = None
                THEN /\ idx' = idx + 1
                     /\ UNCHANGED <<pc, cnf, current_model, before, stack, result,
                                    trail>>
                ELSE /\ stack' = Append(stack,
                            [cnf |-> cnf, current_model |-> a.model,
                             lit |-> lit, idx |-> idx])
                     /\ cnf' = Get(new_cnf)
                     /\ current_model' = a.model
                     /\ trail' = Append(trail, branch_lit)
                     /\ pc' = "call"
                     /\ UNCHANGED <<before, idx, result>>
    /\ UNCHANGED <<arg, ret, f, m, pures, lit, verdict>>

\* dpll, lines 302-309 and 313: one iteration of the loop over the two
\* polarities up to the recursive call, or the end of the loop.
Try ==
    /\ pc = "try"
    /\ IF idx >= 2
       THEN /\ ReturnValue(None)
            /\ UNCHANGED <<cnf, current_model, before, idx, stack, trail>>
       ELSE LET branch_lit == IF idx = 0 THEN lit ELSE negate(lit)
                a == _assign(current_model, branch_lit)
                new_cnf == _apply_literal(cnf, branch_lit)
            IN  IF ~a.ok \/ new_cnf = None
                THEN /\ idx' = idx + 1
                     /\ UNCHANGED <<pc, cnf, current_model, before, stack, result,
                                    trail>>
                ELSE /\ stack' = Append(stack,
                            [cnf |-> cnf, current_model |-> current_model,
                             lit |-> lit, idx |-> idx])
                     /\ cnf' = Get(new_cnf)
                     /\ current_model' = a.model
                     /\ trail' = Append(trail, branch_lit)
                     /\ pc' = "call"
                     /\ UNCHANGED <<before, idx, result>>
    /\ UNCHANGED <<arg, ret, f, m, pures, lit, verdict>>

\* dpll, lines 309-311: a call has returned; the caller resumes, or the
\* outermost call is over.
Return ==
    /\ pc = "return"
    /\ IF stack = <<>>
       THEN /\ pc' = "done"
            /\ UNCHANGED <<cnf, current_model, lit, idx, stack>>
       ELSE LET frame == stack[Len(stack)]
            IN  /\ stack' = SubSeq(stack, 1, Len(stack) - 1)
                /\ cnf' = frame.cnf
                /\ current_model' = frame.current_model
                /\ lit' = frame.lit
                /\ IF result # None
                   THEN /\ idx' = frame.idx
                        /\ pc' = "return"
                   ELSE /\ idx' = frame.idx + 1
                        /\ pc' = "try"
    /\ UNCHANGED <<arg, ret, f, m, before, pures, result, trail, verdict>>

\* The caller checks the returned model (example_property_tests.py, lines
\* 97-99): evaluate_cnf(cnf, model).
Evaluate ==
    /\ pc = "done"
    /\ result # None
    /\ verdict' = evaluate_cnf(f, Get(result))
    /\ pc' = "evaluated"
    /\ UNCHANGED <<arg, ret, f, m, cnf, current_model, before, pures, lit, idx, stack,
                   result, trail>>

Next ==
    \/ Enter
    \/ UnitStep
    \/ PureScan
    \/ PureApply
    \/ LoopCheck
    \/ Choose
    \/ Try
    \/ Return
    \/ Evaluate

Spec == Init /\ [][Next]_vars

\* The search with its steps taken as long as one is possible: the
\* interpreter runs a call to its end.
SpecLive == Init /\ [][Next]_vars /\ WF_vars(Next)

\* evaluate_cnf on its own: every formula with every model of the bounds,
\* the model standing where a returned model stands.
InitEval ==
    /\ f \in InputFormulas
    /\ m \in AllModels
    /\ pc = "done"
    /\ cnf = f
    /\ current_model = m
    /\ before = <<>>
    /\ pures = {}
    /\ lit = NoLit
    /\ idx = 0
    /\ stack = <<>>
    /\ result = Some(m)
    /\ trail = <<>>
    /\ verdict = FALSE
    /\ arg = NoArg
    /\ ret = None

NextEval == Evaluate

SpecEval == InitEval /\ [][NextEval]_vars

-----------------------------------------------------------------------------
(* Parsing and normalization as calls of their own *)

\* The characters tokens are made of: decimal digits, the sign markers, a
\* space, a letter and a digit without decimal value.
TokenChars == {"0", "1", "-", "+", " ", "x", "²"}

Tokens == UNION {[1 .. n -> TokenChars] : n \in 0 .. MaxTokenLen}

\* The values given to parse_literal.
LiteralLikes ==
    {LiteralObject(Literal(v, b)) : v \in 0 .. MaxInt, b \in BOOLEAN}
        \cup {IntObject(n) : n \in -MaxInt .. MaxInt}
        \cup {StrObject(t) : t \in Tokens}
        \cup {[type |-> "float"], [type |-> "NoneType"]}

\* The sequences of literal-likes given to make_clause.
ClauseArgs ==
    UNION {[1 .. n -> {IntObject(-MaxInt), IntObject(0), IntObject(1),
                       StrObject(<<"-", "0">>), StrObject(<<"1">>),
                       StrObject(<<"x">>), LiteralObject(Literal(1, TRUE)),
                       [type |-> "float"]}] : n \in 0 .. MaxClauseLen}

\* The search is not running.
SearchIdle ==
    /\ f = <<>>
    /\ m = EmptyModel
    /\ cnf = <<>>
    /\ current_model = EmptyModel
    /\ before = <<>>
    /\ pures = {}
    /\ lit = NoLit
    /\ idx = 0
    /\ stack = <<>>
    /\ result = None
    /\ trail = <<>>
    /\ verdict = FALSE

searchVars ==
    <<f, m, cnf, current_model, before, pures, lit, idx, stack, result, trail,
      verdict>>

\* One call of a parsing function: pc names the function called, arg is
\* its argument.
InitParse ==
    /\ SearchIdle
    /\ ret = None
    /\ \/ pc = "parse_literal" /\ arg \in LiteralLikes
       \/ pc = "str" /\ arg \in {x \in LiteralLikes : x.type = "Literal"}
       \/ pc = "Literal" /\ arg \in [var : -MaxInt .. MaxInt, negated : BOOLEAN]
       \/ pc = "make_clause" /\ arg \in ClauseArgs

\* parse_literal(arg)
ParseLiteral ==
    /\ pc = "parse_literal"
    /\ ret' = parse_literal(arg)
    /\ pc' = "parse_literal_returned"
    /\ UNCHANGED <<arg, searchVars>>

\* parse_literal(str(arg)) for a Literal arg
ParseStr ==
    /\ pc = "str"
    /\ ret' = parse_literal(StrObject(__str__(arg)))
    /\ pc' = "str_parsed"
    /\ UNCHANGED <<arg, searchVars>>

\* Literal(arg.var, arg.negated)
Construct ==
    /\ pc = "Literal"
    /\ ret' = __init__(arg.var, arg.negated)
    /\ pc' = "Literal_returned"
    /\ UNCHANGED <<arg, searchVars>>

\* make_clause(arg)
MakeClause ==
    /\ pc = "make_clause"
    /\ ret' = make_clause(arg)
    /\ pc' = "make_clause_returned"
    /\ UNCHANGED <<arg, searchVars>>

NextParse ==
    \/ ParseLiteral
    \/ ParseStr
    \/ Construct
    \/ MakeClause

SpecParse == InitParse /\ [][NextParse]_vars

-----------------------------------------------------------------------------
(* The formula argument of make_cnf, dpll, is_satisfiable and evaluate_cnf *)

\* The literal-likes of the formulas given: Literal objects, ints or
\* tokens, one kind in a formula.
RawLiterals(kind) ==
    CASE kind = "Literal" ->
            {LiteralObject(l) : l \in [var : 0 .. 1, negated : BOOLEAN]}
      [] kind = "int" -> {IntObject(n) : n \in -1 .. 1}
      [] kind = "str" ->
            {StrObject(t) : t \in {<<"0">>, <<"-", "0">>, <<"1">>, <<"x">>}}

\* The clauses given: [type, items] with the Python type of the container;
\* the items of a list or tuple are a sequence, of a set or frozenset a set.
RawClauses(kind) ==
    {[type |-> t, items |-> q] :
        t \in {"list", "tuple"},
        q \in UNION {[1 .. n -> RawLiterals(kind)] : n \in 0 .. MaxRawLen}}
    \cup
    {[type |-> t, items |-> q] :
        t \in {"set", "frozenset"},
        q \in {S \in SUBSET RawLiterals(kind) : Cardinality(S) <= MaxRawLen}}

\* The formulas given: a list or a tuple of clauses.
RawFormulas ==
    UNION {
        {[type |-> t, items |-> q] :
            t \in {"list", "tuple"},
            q \in UNION {[1 .. n -> RawClauses(kind)] : n \in 0 .. MaxRawClauses}}
        : kind \in {"Literal", "int", "str"}}

\* A clause as the search and the evaluator see it: len(c) and the set of
\* its members.
Seen(c) ==
    IF c.type \in {"set", "frozenset"}
    THEN [len |-> Cardinality(c.items),
          members |-> {AsValue(x) : x \in c.items}]
    ELSE [len |-> Len(c.items),
          members |-> {AsValue(c.items[i]) : i \in DOMAIN c.items}]

\* Lines 267 and 329: cnf = formula if isinstance(formula, tuple) else
\* make_cnf(formula).  None where make_cnf raises.
Normalized(formula) ==
    IF formula.type = "tuple"
    THEN Some([i \in DOMAIN formula.items |-> Seen(formula.items[i])])
    ELSE LET n == make_cnf(formula.items)
         IN  IF n = None
             THEN None
             ELSE Some([i \in DOMAIN Get(n) |->
                            [len |-> Cardinality(Get(n)[i]),
                             members |-> Get(n)[i]]])

\* The member of a clause is a Literal.
IsLiteral(e) == DOMAIN e = {"var", "negated"}

\* Every clause holds Literals alone, none twice.
AllLiterals(cs) ==
    \A i \in DOMAIN cs :
        /\ cs[i].len = Cardinality(cs[i].members)
        /\ \A e \in cs[i].members : IsLiteral(e)

\* Every clause holds Literals alone.
OnlyLiterals(cs) == \A i \in DOMAIN cs : \A e \in cs[i].members : IsLiteral(e)

\* No clause holds a Literal.
NoLiteral(cs) == \A i \in DOMAIN cs : \A e \in cs[i].members : ~IsLiteral(e)

\* What a call comes to: a value, or the exception it raises.
Returned(value) == [tag |-> "return", value |-> value]

Raised(exception) == [tag |-> "raise", value |-> exception]

\* dpll(formula) from line 267 on, for a cnf the search of this module
\* covers: clauses of Literals, none twice in a clause, where it is
\* dpll(cnf, {}); or clauses without any Literal, where the base cases of
\* lines 278-281 return and the first lit_true.negated or lit.var after them
\* (lines 169, 205) raises AttributeError.
DpllOn(formula) ==
    LET n == Normalized(formula)
    IN  IF n = None
        THEN {Raised("ValueError or TypeError")}
        ELSE LET cs == Get(n)
             IN  IF AllLiterals(cs)
                 THEN {IF o.tag = "model"
                       THEN Returned(Some(o.model))
                       ELSE IF o.tag = "None"
                       THEN Returned(None)
                       ELSE Raised(o.tag)
                       : o \in dpll([i \in DOMAIN cs |-> cs[i].members],
                                    EmptyModel)}
                 ELSE IF cs = <<>>
                 THEN {Returned(Some(EmptyModel))}
                 ELSE IF \E i \in DOMAIN cs : cs[i].len = 0
                 THEN {Returned(None)}
                 ELSE {Raised("AttributeError")}

\* is_satisfiable(formula): dpll(formula) is not None.
IsSatisfiableOn(formula) ==
    {IF o.tag = "return" THEN Returned(o.value # None) ELSE o
        : o \in DpllOn(formula)}

\* evaluate_cnf(formula, model) from line 329 on, for a cnf of clauses of
\* Literals, or of clauses without any Literal, where lit.var (line 333)
\* raises AttributeError at the first member met.
EvaluateCnfOn(formula, model) ==
    LET n == Normalized(formula)
    IN  IF n = None
        THEN Raised("ValueError or TypeError")
        ELSE LET cs == Get(n)
             IN  IF OnlyLiterals(cs)
                 THEN Returned(evaluate_cnf([i \in DOMAIN cs |-> cs[i].members],
                                            model))
                 ELSE IF cs = <<>>
                 THEN Returned(TRUE)
                 ELSE IF cs[1].len = 0
                 THEN Returned(FALSE)
                 ELSE Raised("AttributeError")

\* The formulas whose search this module covers.
Searchable(formula) ==
    \/ Normalized(formula) = None
    \/ AllLiterals(Get(Normalized(formula)))
    \/ NoLiteral(Get(Normalized(formula)))

\* The formulas whose evaluation this module covers.
Evaluable(formula) ==
    \/ Normalized(formula) = None
    \/ OnlyLiterals(Get(Normalized(formula)))
    \/ NoLiteral(Get(Normalized(formula)))

\* One call of make_cnf, dpll, is_satisfiable or evaluate_cnf: pc names the
\* function called, arg is the formula given, m the model given to
\* evaluate_cnf.
InitNormalize ==
    /\ ret = None
    /\ f = <<>>
    /\ cnf = <<>>
    /\ current_model = EmptyModel
    /\ before = <<>>
    /\ pures = {}
    /\ lit = NoLit
    /\ idx = 0
    /\ stack = <<>>
    /\ result = None
    /\ trail = <<>>
    /\ verdict = FALSE
    /\ \/ pc = "make_cnf" /\ arg \in RawFormulas /\ m = EmptyModel
       \/ /\ pc \in {"dpll", "is_satisfiable"}
          /\ arg \in {x \in RawFormulas : Searchable(x)}
          /\ m = EmptyModel
       \/ /\ pc = "evaluate_cnf"
          /\ arg \in {x \in RawFormulas : Evaluable(x)}
          /\ m \in [0 .. 1 -> BOOLEAN] \cup {EmptyModel}

\* make_cnf(arg)
MakeCnf ==
    /\ pc = "make_cnf"
    /\ ret' = make_cnf(arg.items)
    /\ pc' = "make_cnf_returned"
    /\ UNCHANGED <<arg, searchVars>>

\* dpll(arg)
DpllCall ==
    /\ pc = "dpll"
    /\ ret' \in DpllOn(arg)
    /\ pc' = "dpll_returned"
    /\ UNCHANGED <<arg, searchVars>>

\* is_satisfiable(arg)
IsSatisfiableCall ==
    /\ pc = "is_satisfiable"
    /\ ret' \in IsSatisfiableOn(arg)
    /\ pc' = "is_satisfiable_returned"
    /\ UNCHANGED <<arg, searchVars>>

\* evaluate_cnf(arg, m)
EvaluateCnfCall ==
    /\ pc = "evaluate_cnf"
    /\ ret' = EvaluateCnfOn(arg, m)
    /\ pc' = "evaluate_cnf_returned"
    /\ UNCHANGED <<arg, searchVars>>

NextNormalize ==
    \/ MakeCnf
    \/ DpllCall
    \/ IsSatisfiableCall
    \/ EvaluateCnfCall

SpecNormalize == InitNormalize /\ [][NextNormalize]_vars

-----------------------------------------------------------------------------
(* The search on formulas with clauses of unequal length *)

\* Clauses of two literals and more, one literal longer than InputClauses
\* allows: the clauses that are left at a branching decision.
WideClauses ==
    {c \in SUBSET Literals :
        Cardinality(c) >= 2 /\ Cardinality(c) <= MaxClauseLen + 1}

WideFormulas == [1 .. MaxClauses -> WideClauses]

\* dpll(f) called without a starting model on a formula of wide clauses.
InitBranch ==
    /\ f \in WideFormulas
    /\ m = EmptyModel
    /\ pc = "call"
    /\ cnf = f
    /\ current_model = m
    /\ before = <<>>
    /\ pures = {}
    /\ lit = NoLit
    /\ idx = 0
    /\ stack = <<>>
    /\ result = None
    /\ trail = <<>>
    /\ verdict = FALSE
    /\ arg = NoArg
    /\ ret = None

SpecBranch == InitBranch /\ [][Next]_vars

-----------------------------------------------------------------------------
(* _assign on its own *)

\* _assign(current_model, lit) about to be called: any model over the
\* variables, any literal.
InitAssign ==
    /\ f = <<>>
    /\ m \in AllModels
    /\ pc = "_assign"
    /\ cnf = <<>>
    /\ current_model = m
    /\ before = <<>>
    /\ pures = {}
    /\ lit \in Literals
    /\ idx = 0
    /\ stack = <<>>
    /\ result = None
    /\ trail = <<>>
    /\ verdict = FALSE
    /\ arg = NoArg
    /\ ret = None

\* _assign(current_model, lit): the dict is changed in place, verdict is
\* the bool returned.
Assign ==
    /\ pc = "_assign"
    /\ LET a == _assign(current_model, lit)
       IN  /\ current_model' = a.model
           /\ verdict' = a.ok
    /\ pc' = "_assign_returned"
    /\ UNCHANGED <<arg, ret, f, m, cnf, before, pures, lit, idx, stack, result,
                   trail>>

\* The caller goes on to its next literal (the loops of lines 187-191 and
\* 219-220) with the same dict.
NextLiteral ==
    /\ pc = "_assign_returned"
    /\ lit' \in Literals
    /\ pc' = "_assign"
    /\ UNCHANGED <<arg, ret, f, m, cnf, current_model, before, pures, idx, stack,
                   result, trail, verdict>>

NextAssign ==
    \/ Assign
    \/ NextLiteral

SpecAssign == InitAssign /\ [][NextAssign]_vars

-----------------------------------------------------------------------------
(* Propositional semantics, stated without the program's functions *)

\* Literal l is true under the assignment a (a assigns l's variable).
LitTrue(l, a) == l.var \in DOMAIN a /\ a[l.var] = ~l.negated

\* Every clause of formula has a literal that a makes true.
Satisfies(a, formula) ==
    \A i \in DOMAIN formula : \E l \in formula[i] : LitTrue(l, a)

\* Assignment a agrees with model on every variable of model.
Agrees(a, model) ==
    \A v \in DOMAIN model : v \in DOMAIN a /\ a[v] = model[v]

HasEmptyClause(formula) == \E i \in DOMAIN formula : formula[i] = {}

\* Exhaustive search over the total assignments of the formula's variables.
BruteForceSat(formula) ==
    \E a \in [VarsOf(formula) -> BOOLEAN] : Satisfies(a, formula)

\* The outermost call is over.
Done == pc \in {"done", "evaluated"}

x0 == Literal(0, FALSE)
x1 == Literal(1, FALSE)
x2 == Literal(2, FALSE)
not_x0 == Literal(0, TRUE)
not_x1 == Literal(1, TRUE)
not_x2 == Literal(2, TRUE)

-----------------------------------------------------------------------------
(* Claims *)

\* C1 - Soundness: when dpll(f), called without a starting model, returns a
\* model M, evaluate_cnf(f, M) is true, and every clause of the original
\* formula f has a literal whose variable M assigns the value that makes the
\* literal true.
C1_Soundness ==
    (Done /\ m = EmptyModel /\ result # None) =>
        /\ evaluate_cnf(f, Get(result))
        /\ pc = "evaluated" => verdict
        /\ \A i \in DOMAIN f : \E l \in f[i] :
              /\ l.var \in DOMAIN Get(result)
              /\ Get(result)[l.var] = ~l.negated

\* A model was returned after the first polarity of a branch literal had
\* failed, and the caller has evaluated it.
C1_Witness ==
    /\ pc = "evaluated"
    /\ m = EmptyModel
    /\ result # None
    /\ Len(trail) >= 2
    /\ Len(f) = MaxClauses

\* C2 - Completeness against brute force: is_satisfiable(f) is true exactly
\* when f has no empty clause and some total assignment of f's variables
\* satisfies every clause (the empty formula is satisfiable); dpll returns
\* None for every formula that holds the unit clauses {x} and {not x}.
C2_Completeness ==
    (Done /\ m = EmptyModel) =>
        /\ (result # None) <=> (~HasEmptyClause(f) /\ BruteForceSat(f))
        /\ f = <<>> => result # None
        /\ (\E v \in Vars, i, j \in DOMAIN f :
              f[i] = {Literal(v, FALSE)} /\ f[j] = {Literal(v, TRUE)})
           => result = None

\* A satisfiable formula that needed a second polarity was found
\* satisfiable, ...
C2_Witness ==
    /\ pc = "done"
    /\ m = EmptyModel
    /\ f = <<{x0, x1}, {not_x0, x1}, {not_x0, not_x1}>>
    /\ trail = <<x0, not_x0>>
    /\ result = Some((0 :> FALSE) @@ (1 :> TRUE))

\* C3 - Partial-model search: dpll(f, m) returns a model exactly when some
\* total assignment that agrees with m on every variable of m satisfies f;
\* it returns None whenever m makes every literal of some clause of f false.
C3_PartialModelSearch ==
    Done =>
        /\ (result # None) <=>
              (\E a \in [Vars -> BOOLEAN] : Agrees(a, m) /\ Satisfies(a, f))
        /\ (\E i \in DOMAIN f : \A l \in f[i] :
              l.var \in DOMAIN m /\ m[l.var] = l.negated)
           => result = None

\* A satisfiable formula is reported unsatisfiable under a starting model
\* that no satisfying assignment agrees with, without the model falsifying a
\* clause outright.
C3_Witness ==
    /\ pc = "done"
    /\ m = (0 :> TRUE)
    /\ f = <<{not_x0, x1}, {not_x0, not_x1}>>
    /\ result = None

\* C4 - Empty-clause law: for a formula with an empty clause, at any position
\* and with any other clauses and any starting model, dpll returns None and
\* is_satisfiable is false.
C4_EmptyClauseLaw ==
    HasEmptyClause(f) =>
        /\ pc # "raised"
        /\ Done => result = None
        /\ (Done /\ m = EmptyModel) => is_satisfiable(f) = {FALSE}

\* The empty clause stands last, behind clauses that a non-empty starting
\* model satisfies.
C4_Witness ==
    /\ pc = "done"
    /\ f = <<{x0}, {x0, x1}, {}>>
    /\ m = (0 :> TRUE)
    /\ result = None

\* C5 - Empty-formula law: dpll of the formula with no clause and no starting
\* model returns the empty model {}, and is_satisfiable of it is true.
C5_EmptyFormulaLaw ==
    (Done /\ f = <<>> /\ m = EmptyModel) =>
        /\ result = Some(EmptyModel)
        /\ is_satisfiable(f) = {TRUE}

C5_Witness ==
    /\ pc = "evaluated"
    /\ f = <<>>
    /\ m = EmptyModel
    /\ result = Some(EmptyModel)
    /\ verdict

\* The formulas that list(...) and make_cnf rebuild from formula g: each
\* clause listed in any order of its literals (a list of Literal objects).
RECURSIVE Rebuilds(_)
Rebuilds(g) ==
    IF g = <<>>
    THEN {<<>>}
    ELSE LET n == Len(g)
         IN  {Append(front, [type |-> "list",
                             items |-> [k \in DOMAIN o |-> LiteralObject(o[k])]]) :
                 front \in Rebuilds(SubSeq(g, 1, n - 1)),
                 o \in Orderings(g[n])}

\* formula with its clauses in the order p.
Permuted(formula, p) == [i \in DOMAIN formula |-> formula[p[i]]]

\* C6 - Reordering invariance: every permutation of f's clauses, with every
\* clause rebuilt by make_cnf from its literals listed in any order, is a
\* formula g with is_satisfiable(g) = is_satisfiable(f).
C6_ReorderingInvariance ==
    (pc = "done" /\ m = EmptyModel) =>
        \A p \in Orderings(DOMAIN f) :
            \A g \in {make_cnf(r) : r \in Rebuilds(Permuted(f, p))} :
                /\ g # None
                /\ is_satisfiable(Get(g)) = {result # None}

\* The search of f has branched, and f has a clause order under which the
\* first branch literal is another one.
C6_Witness ==
    /\ pc = "done"
    /\ m = EmptyModel
    /\ Len(trail) >= 2
    /\ \E p \in Orderings(DOMAIN f) :
          \E o \in dpll(Permuted(f, p), EmptyModel) :
              o.trail # <<>> /\ o.trail[1] # trail[1]

\* What the outermost call has come to, in the form of the values of dpll.
Reached ==
    IF pc = "raised"
    THEN Outcome("ValueError", EmptyModel, trail)
    ELSE IF result = None
    THEN Outcome("None", EmptyModel, trail)
    ELSE Outcome("model", Get(result), trail)

\* C7 - Determinism: the runs of dpll on one formula and one starting model,
\* whatever the iteration orders of its sets and of the starting model, try
\* the same branch literals in the same order and return the same result:
\* the one value of dpll(f, m).
C7_Determinism ==
    pc \in {"done", "raised"} => dpll(f, m) = {Reached}

\* A run that eliminated two pure literals in one pass, in one order or the
\* other, and then branched, has returned.
C7_Witness ==
    /\ pc = "done"
    /\ trail # <<>>
    /\ ~HasEmptyClause(f)
    /\ m = EmptyModel
    /\ _find_unit_literal(f) = None
    /\ Cardinality(_pure_literals(f, m)) >= 2

\* C8 - Unsatisfiable is a normal outcome: for every formula (with empty,
\* tautological and duplicate clauses) and every starting model no step of
\* dpll fails: _choose_branch_literal is never asked for the least element
\* of an empty collection, and every call goes on until it returns.
C8_NoInternalFailure ==
    /\ pc # "raised"
    /\ pc = "choose" =>
          /\ cnf # <<>>
          /\ _choose_branch_literal(cnf, current_model) # None
    /\ ~Done => ENABLED Next

\* A search that branched on a formula with a tautological clause and two
\* equal clauses has returned.
C8_Witness ==
    /\ pc = "done"
    /\ trail # <<>>
    /\ \E i \in DOMAIN f : \E v \in Vars :
          {Literal(v, FALSE), Literal(v, TRUE)} \subseteq f[i]
    /\ \E i, j \in DOMAIN f : i # j /\ f[i] = f[j]

\* C9 - Evaluator semantics: evaluate_cnf(f, M) is true exactly when every
\* clause of f has a literal l with l.var assigned in M and M[l.var]
\* different from l.negated; a literal of an unassigned variable satisfies no
\* clause; the formula without clauses is true under every model and a
\* formula with an empty clause is false under every model.
C9_EvaluatorSemantics ==
    pc = "evaluated" =>
        LET M == Get(result)
        IN  /\ verdict <=>
                  (\A i \in DOMAIN f : \E l \in f[i] :
                      l.var \in DOMAIN M /\ M[l.var] # l.negated)
            /\ verdict =>
                  (\A i \in DOMAIN f : \E l \in f[i] : l.var \in DOMAIN M)
            /\ f = <<>> => verdict
            /\ HasEmptyClause(f) => ~verdict

\* A clause whose only literal of the right polarity has an unassigned
\* variable is found unsatisfied.
C9_Witness ==
    /\ pc = "evaluated"
    /\ f = <<{x0, x1}, {not_x1}>>
    /\ result = Some((1 :> FALSE))
    /\ ~verdict

\* C10 as stated - the returned model assigns every variable of f.
C10_Original ==
    (Done /\ m = EmptyModel /\ result # None) =>
        VarsOf(f) \subseteq DOMAIN Get(result)

\* C10 as amended - the model returned by dpll(f) may leave variables of f
\* unassigned, but only variables that it does not need: every clause in
\* which an unassigned variable occurs has a literal that the model makes
\* true.
C10_UnassignedNotNeeded ==
    (Done /\ m = EmptyModel /\ result # None) =>
        \A v \in VarsOf(f) \ DOMAIN Get(result) :
            \A i \in DOMAIN f :
                (\E l \in f[i] : l.var = v) =>
                    \E l \in f[i] : LitTrue(l, Get(result))

\* A model was returned that leaves a variable of the formula unassigned.
C10_Witness ==
    /\ pc = "done"
    /\ m = EmptyModel
    /\ f = <<{x0, x1}, {x0}>>
    /\ result = Some((0 :> TRUE))

\* The token of a Literal as the claims describe it: "-" exactly for a
\* negated literal, then the decimal digits of the variable.
WrittenAs(t, l) ==
    LET digits == IF l.negated THEN Tail(t) ELSE t
    IN  /\ t # <<>>
        /\ l.negated <=> (t[1] = "-")
        /\ digits # <<>>
        /\ \A i \in DOMAIN digits : IsDecimal(digits[i])
        /\ DecimalValue(digits) = l.var

\* C11 - Negative zero and round trip: parse_literal("-0") is the literal
\* (0, negated), parse_literal("0") is the literal (0, not negated), the two
\* differ, and for every literal l, var 0 included, str(l) is "-" and the var
\* for a negated literal, the var alone otherwise, and parse_literal(str(l))
\* is l.
C11_NegativeZeroRoundTrip ==
    /\ (pc = "parse_literal_returned" /\ arg = StrObject(<<"-", "0">>))
            => ret = Some(Literal(0, TRUE))
    /\ (pc = "parse_literal_returned" /\ arg = StrObject(<<"0">>))
            => ret = Some(Literal(0, FALSE))
    /\ parse_literal(StrObject(<<"-", "0">>)) # parse_literal(StrObject(<<"0">>))
    /\ pc = "str_parsed"
            => /\ WrittenAs(__str__(arg), arg)
               /\ ret = Some(Literal(arg.var, arg.negated))

C11_Witness ==
    /\ pc = "str_parsed"
    /\ arg = LiteralObject(not_x0)
    /\ __str__(arg) = <<"-", "0">>
    /\ ret = Some(not_x0)

\* C12 - The formula with the clauses {x0, x1} and {not x0}, written
\* [[0, 1], ["-0"]]: dpll returns a model in which variable 0 is false and
\* variable 1 is true, so that clause {x0, x1} is satisfied through
\* variable 1.
NegatedZeroScenario ==
    Get(make_cnf(<<[type |-> "list", items |-> <<IntObject(0), IntObject(1)>>],
                   [type |-> "list", items |-> <<StrObject(<<"-", "0">>)>>]>>))

C12_NegatedZeroScenario ==
    (Done /\ f = NegatedZeroScenario /\ m = EmptyModel)
        => /\ f = <<{x0, x1}, {not_x0}>>
           /\ result # None
           /\ 0 \in DOMAIN Get(result) /\ Get(result)[0] = FALSE
           /\ 1 \in DOMAIN Get(result) /\ Get(result)[1] = TRUE

C12_Witness ==
    /\ pc = "done"
    /\ f = <<{x0, x1}, {not_x0}>>
    /\ m = EmptyModel
    /\ result = Some((0 :> FALSE) @@ (1 :> TRUE))

\* A token that parses: spaces, then an optional "-", then one or more
\* decimal digits, then spaces; body is the token without the spaces.
WellFormed(t) ==
    \E i, j \in DOMAIN t :
        /\ i <= j
        /\ \A k \in DOMAIN t : (k < i \/ k > j) => t[k] \in Whitespace
        /\ LET body == SubSeq(t, i, j)
               digits == IF body[1] = "-" THEN Tail(body) ELSE body
           IN  /\ digits # <<>>
               /\ \A k \in DOMAIN digits : IsDecimal(digits[k])

\* The literal a well-formed token stands for.
Meaning(t) ==
    LET body == SelectSeq(t, LAMBDA ch : ch \notin Whitespace)
        digits == IF body[1] = "-" THEN Tail(body) ELSE body
    IN  Literal(DecimalValue(digits), body[1] = "-")

\* C13 - Literal parsing errors: parse_literal fails, returning no literal,
\* for every token that is empty after trimming, for every token whose
\* characters after the optional single leading "-" are not all decimal
\* digits (a lone "-", a doubled sign and a leading "+" among them), and for
\* every value that is not a Literal, an int or a str; for every other token
\* it returns the literal of that variable, negated exactly when the "-" is
\* there.
C13_ParsingErrors ==
    pc = "parse_literal_returned"
        => /\ arg.type \notin {"Literal", "int", "str"} => ret = None
           /\ arg.type \in {"Literal", "int"} => ret # None
           /\ arg.type = "str"
                => IF WellFormed(arg.chars)
                   THEN ret = Some(Meaning(arg.chars))
                   ELSE ret = None

C13_Witness ==
    /\ pc = "parse_literal_returned"
    /\ arg = StrObject(<<"-", "-", "1">>)
    /\ ret = None

\* C14 - Non-negative variable ids: Literal(var, negated) with var < 0
\* fails at construction; every literal parse_literal returns, and every
\* literal of a clause make_clause returns, has var >= 0; a negative int n
\* given to parse_literal gives the literal (-n, negated).
C14_NonNegativeVar ==
    /\ pc = "Literal_returned"
            => IF arg.var < 0
               THEN ret = None
               ELSE ret = Some(Literal(arg.var, arg.negated))
    /\ pc \in {"parse_literal_returned", "str_parsed"}
            => \A l \in ret : l.var >= 0
    /\ pc = "make_clause_returned"
            => \A clause \in ret : \A l \in clause : l.var >= 0
    /\ (pc = "parse_literal_returned" /\ arg.type = "int" /\ arg.value < 0)
            => ret = Some(Literal(-arg.value, TRUE))

C14_Witness ==
    /\ pc = "Literal_returned"
    /\ arg.var < 0
    /\ ret = None


\* A member of a clause as a literal-like given: the inverse of AsValue.
AsObject(v) ==
    IF IsLiteral(v)
    THEN LiteralObject(v)
    ELSE v

\* The value make_cnf returns, given as a formula: a tuple of frozensets.
CnfObject(n) ==
    [type |-> "tuple",
     items |-> [i \in DOMAIN n |->
                   [type |-> "frozenset",
                    items |-> {AsObject(v) : v \in n[i]}]]]

\* Two calls come to the same: the same value returned, or the same
\* exception raised.
SameOutcome(a, b) == a.tag = b.tag /\ a.value = b.value

\* C15 - Convenience input forms are normalized: for every formula given as
\* a list or a tuple of clauses, each clause any iterable of literal-likes,
\* the result of dpll, of is_satisfiable and of evaluate_cnf is their result
\* on make_cnf of that formula.
C15_InputFormsNormalized ==
    /\ (pc = "dpll_returned" /\ make_cnf(arg.items) # None
            /\ Searchable(CnfObject(Get(make_cnf(arg.items)))))
        => \E o \in DpllOn(CnfObject(Get(make_cnf(arg.items)))) :
                SameOutcome(ret, o)
    /\ (pc = "is_satisfiable_returned" /\ make_cnf(arg.items) # None
            /\ Searchable(CnfObject(Get(make_cnf(arg.items)))))
        => \E o \in IsSatisfiableOn(CnfObject(Get(make_cnf(arg.items)))) :
                SameOutcome(ret, o)
    /\ (pc = "evaluate_cnf_returned" /\ make_cnf(arg.items) # None
            /\ Evaluable(CnfObject(Get(make_cnf(arg.items)))))
        => SameOutcome(ret,
                       EvaluateCnfOn(CnfObject(Get(make_cnf(arg.items))), m))

\* The literal-likes of a clause given.
Elements(c) ==
    IF c.type \in {"set", "frozenset"}
    THEN c.items
    ELSE {c.items[i] : i \in DOMAIN c.items}

\* C16 - CNF construction: make_cnf returns one clause for each clause
\* given, in the order given, two equal clauses staying two; every clause
\* returned is the set of the Literals parsed from the clause given at its
\* place, whatever container (list, tuple, set or frozenset) held them.
C16_CnfConstruction ==
    (pc = "make_cnf_returned" /\ ret # None)
        => /\ Len(Get(ret)) = Len(arg.items)
           /\ \A i \in DOMAIN arg.items :
                /\ \A x \in Elements(arg.items[i]) : parse_literal(x) # None
                /\ Get(ret)[i] =
                      {Get(parse_literal(x)) : x \in Elements(arg.items[i])}


\* The clauses of F without L, in their order, each without not-L.
Rewritten(F, L) ==
    LET kept == SelectSeq(F, LAMBDA clause : L \notin clause)
    IN  [i \in DOMAIN kept |-> kept[i] \ {negate(L)}]

\* The variables of the formula occurring in either polarity.
Occurs(var, formula) ==
    \E i \in DOMAIN formula : \E l \in formula[i] : l.var = var

\* _apply_literal on the formula of the running call, for every literal.
ApplyLiteralLaw ==
    \A L \in Literals :
        LET applied == _apply_literal(cnf, L)
        IN  /\ applied = None <=> \E i \in DOMAIN cnf : cnf[i] = {negate(L)}
            /\ applied # None
                => /\ Get(applied) = Rewritten(cnf, L)
                   /\ ~Occurs(L.var, Get(applied))

\* The step of dpll that applies the branch literal (lines 306-309): the
\* callee gets the rewritten formula, the caller keeps its own.
BranchApplies ==
    (pc = "try" /\ pc' = "call")
        => /\ stack'[Len(stack')].cnf = cnf
           /\ cnf' = Rewritten(cnf, trail'[Len(trail')])

\* C17 - Literal application: for every formula F and literal L,
\* _apply_literal(F, L) is None exactly when a clause of F is {not L};
\* otherwise it is the clauses of F that do not contain L, in their order,
\* with not-L removed, so that L's variable occurs in no polarity in the
\* result; and F is as it was.
C17_LiteralApplication == []ApplyLiteralLaw /\ [][BranchApplies]_vars

C17_Witness ==
    /\ pc = "call"
    /\ stack # <<>>
    /\ LET F == stack[Len(stack)].cnf
           L == trail[Len(trail)]
       IN  /\ Len(cnf) < Len(F)
           /\ \E i \in DOMAIN F : L \notin F[i] /\ negate(L) \in F[i]
           /\ \E K \in Literals : _apply_literal(cnf, K) = None


\* No clause of the formula has exactly one literal.
NoUnitClause(formula) ==
    \A i \in DOMAIN formula : Cardinality(formula[i]) # 1

\* The literals a call _unit_propagate(formula, model) that returns a
\* formula takes from unit clauses, in the order it takes them.
RECURSIVE UnitsTaken(_)
UnitsTaken(formula) ==
    LET unit == _find_unit_literal(formula)
    IN  IF unit = None
        THEN <<>>
        ELSE LET applied == _apply_literal(formula, Get(unit))
             IN  IF applied = None
                 THEN <<Get(unit)>>
                 ELSE <<Get(unit)>> \o UnitsTaken(Get(applied))

\* C18 - Unit propagation runs to a fixed point: whenever _unit_propagate
\* returns a formula, no clause of it has exactly one literal, and every
\* literal taken from a unit clause during the call is true in the model:
\* its variable has the value not negated.
C18_UnitPropagationFixedPoint ==
    /\ pc = "unit"
         => LET propagated == _unit_propagate(cnf, current_model)
            IN  propagated # None
                  => /\ NoUnitClause(Get(propagated).formula)
                     /\ \A k \in DOMAIN UnitsTaken(cnf) :
                          LET l == UnitsTaken(cnf)[k]
                          IN  /\ l.var \in DOMAIN Get(propagated).model
                              /\ Get(propagated).model[l.var] = ~l.negated
    /\ pc = "pure" => NoUnitClause(cnf)

C18_Witness ==
    /\ pc = "unit"
    /\ before = cnf
    /\ _unit_propagate(cnf, current_model) # None
    /\ Len(UnitsTaken(cnf)) >= 2
    /\ Get(_unit_propagate(cnf, current_model)).formula # <<>>

\* The literals of the formula whose variable occurs in that polarity alone.
SinglePolarity(formula) ==
    LET occurring == UNION {formula[i] : i \in DOMAIN formula}
    IN  {l \in occurring : negate(l) \notin occurring}

\* The clauses of r are clauses of F, in the order they have in F.
IsSubSeq(r, F) ==
    \E g \in [DOMAIN r -> DOMAIN F] :
        /\ \A i, j \in DOMAIN r : i < j => g[i] < g[j]
        /\ \A i \in DOMAIN r : r[i] = F[g[i]]

\* _eliminate_pure_literals called with the formula and model of the
\* running call.
PureEliminationLaw ==
    /\ pc = "pure"
         => \A e \in _eliminate_pure_literals(cnf, current_model) :
              e # None
                => /\ SinglePolarity(Get(e).formula) = {}
                   /\ IsSubSeq(Get(e).formula, cnf)
                   /\ \A l \in SinglePolarity(cnf) : LitTrue(l, Get(e).model)
                   /\ \A v \in DOMAIN Get(e).model \ DOMAIN current_model :
                        \E i \in DOMAIN cnf :
                            Literal(v, ~Get(e).model[v]) \in cnf[i]
    /\ pc = "check" => SinglePolarity(cnf) = {}

\* One iteration of the for loop of lines 219-224: the literal it
\* eliminates is true in the model, and the formula only loses clauses.
PureElimination ==
    (pc = "pure_apply" /\ pc' \in {"pure", "pure_apply"})
        => /\ \A l \in pures \ pures' : LitTrue(l, current_model')
           /\ IsSubSeq(cnf', cnf)

\* C19 - Pure-literal elimination runs to a fixed point and only drops
\* clauses: whenever _eliminate_pure_literals returns a formula, no variable
\* occurs in it in a single polarity, every clause of it is a clause of the
\* input, unchanged and in the same relative order, and each eliminated pure
\* literal is true in the model.
C19_PureEliminationFixedPoint ==
    []PureEliminationLaw /\ [][PureElimination]_vars

C19_Witness ==
    /\ pc = "pure"
    /\ Cardinality(SinglePolarity(cnf)) = 1
    /\ \E e \in _eliminate_pure_literals(cnf, current_model) :
         /\ e # None
         /\ Cardinality(DOMAIN Get(e).model \ DOMAIN current_model) >= 2

\* Some total assignment that agrees with model M satisfies F.
SatExt(F, M) ==
    \E a \in [Vars -> BOOLEAN] : Agrees(a, M) /\ Satisfies(a, F)

\* C20 - Simplification preserves satisfiability: with F and M the formula
\* and model at the start of a round of the simplification loop, and F', M'
\* after unit propagation and pure-literal elimination, some assignment
\* extending M satisfies F exactly when some assignment extending M'
\* satisfies F'; and the round reports a conflict only when no assignment
\* extending M satisfies F.
C20_SimplificationPreservesSat ==
    (pc = "unit" /\ before = cnf)
        => LET propagated == _unit_propagate(cnf, current_model)
           IN  IF propagated = None
               THEN ~SatExt(cnf, current_model)
               ELSE \A e \in _eliminate_pure_literals(Get(propagated).formula,
                                                      Get(propagated).model) :
                        IF e = None
                        THEN ~SatExt(cnf, current_model)
                        ELSE SatExt(cnf, current_model)
                                <=> SatExt(Get(e).formula, Get(e).model)

C20_Witness ==
    /\ pc = "unit"
    /\ before = cnf
    /\ SatExt(cnf, current_model)
    /\ LET propagated == _unit_propagate(cnf, current_model)
       IN  /\ propagated # None
           /\ Get(propagated).formula # cnf
           /\ \E e \in _eliminate_pure_literals(Get(propagated).formula,
                                                Get(propagated).model) :
                /\ e # None
                /\ Get(e).formula # Get(propagated).formula


\* C21 - State at every branching decision: whenever dpll reaches the choice
\* of a branch literal, the formula is non-empty, every clause has at least
\* two literals, no clause is a unit clause, no variable occurs in a single
\* polarity, and one more round of unit propagation followed by pure-literal
\* elimination returns the same formula and leaves the model as it is.
C21_BranchingState ==
    pc = "choose"
        => LET same == [formula |-> cnf, model |-> current_model]
           IN  /\ cnf # <<>>
               /\ \A i \in DOMAIN cnf : Cardinality(cnf[i]) >= 2
               /\ NoUnitClause(cnf)
               /\ SinglePolarity(cnf) = {}
               /\ _unit_propagate(cnf, current_model) = Some(same)
               /\ _eliminate_pure_literals(cnf, current_model) = {Some(same)}

\* A branching decision of the outermost call, reached after the
\* simplification loop has rewritten the formula.
C21_Witness ==
    /\ pc = "choose"
    /\ stack = <<>>
    /\ cnf # f
    /\ current_model # m
    /\ Len(cnf) >= 2

\* The literals of the clause whose variable the model leaves unassigned.
Unassigned(clause, model) == {l \in clause : l.var \notin DOMAIN model}

\* The positions of the clauses that contain an unassigned variable.
Candidates(formula, model) ==
    {i \in DOMAIN formula : Unassigned(formula[i], model) # {}}

\* Literal l is the choice the rule makes for formula under model: it is
\* the least unassigned literal, variable id first and the positive literal
\* before the negated one, of the first clause of least literal count among
\* the clauses with an unassigned variable.
IsBranchChoice(l, formula, model) ==
    \E i \in Candidates(formula, model) :
        /\ \A j \in Candidates(formula, model) :
              Cardinality(formula[i]) <= Cardinality(formula[j])
        /\ \A j \in Candidates(formula, model) :
              j < i => Cardinality(formula[j]) > Cardinality(formula[i])
        /\ l \in Unassigned(formula[i], model)
        /\ \A k \in Unassigned(formula[i], model) :
              \/ k = l
              \/ l.var < k.var
              \/ (l.var = k.var /\ ~l.negated /\ k.negated)

\* C22 - Branch-literal choice: at a branching decision the chosen literal
\* belongs to the first clause, in formula order, among the clauses of
\* minimum literal count that contain an unassigned variable, and it is the
\* least unassigned literal of that clause under the order that compares
\* variable id first and then polarity, positive before negated.  The same
\* holds of _choose_branch_literal on the formula of the decision under any
\* model that leaves a variable of the formula unassigned.
C22_BranchLiteralChoice ==
    /\ pc = "try" => IsBranchChoice(lit, cnf, current_model)
    /\ pc = "choose"
         => \A mm \in AllModels :
              Candidates(cnf, mm) # {}
                => /\ _choose_branch_literal(cnf, mm) # None
                   /\ IsBranchChoice(Get(_choose_branch_literal(cnf, mm)),
                                     cnf, mm)

\* A decision in which the first clause is longer than a later one, and the
\* chosen literal is a negated one.
C22_Witness ==
    /\ pc = "try"
    /\ idx = 0
    /\ Cardinality(cnf[1]) > Cardinality(cnf[2])
    /\ lit.negated
    /\ lit \notin cnf[1]

\* The model with literal l made true.
WithTrue(model, l) == (l.var :> ~l.negated) @@ model

\* The formula and model with which the simplification loop entered with
\* (c, model) reaches a branching decision: none if the call returns before
\* it branches.
RECURSIVE FixedPoints(_, _)
FixedPoints(c, model) ==
    LET propagated == _unit_propagate(c, model)
    IN  IF propagated = None
        THEN {}
        ELSE UNION {
                IF e = None \/ Get(e).formula = <<>>
                THEN {}
                ELSE IF Get(e).formula = c
                THEN {Get(e)}
                ELSE FixedPoints(Get(e).formula, Get(e).model)
                : e \in _eliminate_pure_literals(Get(propagated).formula,
                                                 Get(propagated).model)}

\* The same for a call dpll(formula, model).
DecisionStates(formula, model) ==
    UNION {
        LET applied == ApplyModel(formula, model, order, 1)
        IN  IF applied = None \/ Get(applied) = <<>>
                \/ HasEmptyClause(Get(applied))
            THEN {}
            ELSE FixedPoints(Get(applied), model)
        : order \in Orderings(DOMAIN model)}

\* The arguments the running call was made with: those of the outermost
\* call, or what the caller's frame says it passed.
EntryArgs ==
    IF stack = <<>>
    THEN [formula |-> f, model |-> m]
    ELSE LET frame == stack[Len(stack)]
             tried == IF frame.idx = 0 THEN frame.lit ELSE negate(frame.lit)
         IN  [formula |-> Rewritten(frame.cnf, tried),
              model |-> WithTrue(frame.current_model, tried)]

\* Every call dpll(formula, model) fails.
Fails(formula, model) == \A o \in dpll(formula, model) : o.tag = "None"

\* While the two polarities are tried, the call holds the formula and model
\* it had when it chose the literal; a later polarity is reached only with
\* the earlier ones failed.
BacktrackingState ==
    pc = "try"
        => /\ [formula |-> cnf, model |-> current_model]
                \in DecisionStates(EntryArgs.formula, EntryArgs.model)
           /\ lit.var \notin DOMAIN current_model
           /\ idx >= 1
                => /\ result = None
                   /\ Fails(Rewritten(cnf, lit), WithTrue(current_model, lit))
           /\ idx >= 2
                => Fails(Rewritten(cnf, negate(lit)),
                         WithTrue(current_model, negate(lit)))

\* The steps of lines 299-313.
BacktrackingStep ==
    /\ (pc = "choose" /\ pc' = "try") => idx' = 0
    /\ (pc = "try" /\ pc' = "call")
         => LET tried == IF idx = 0 THEN lit ELSE negate(lit)
            IN  /\ idx \in {0, 1}
                /\ cnf' = Rewritten(cnf, tried)
                /\ current_model' = WithTrue(current_model, tried)
                /\ trail' = Append(trail, tried)
    /\ (pc = "try" /\ pc' = "return") => idx = 2 /\ result' = None
    /\ (pc = "return" /\ stack # <<>>)
         => IF result # None
            THEN pc' = "return" /\ result' = result /\ trail' = trail
            ELSE pc' = "try" /\ idx' = stack[Len(stack)].idx + 1

\* C23 - Branch order and backtracking: at every branching decision the
\* chosen literal is tried true first; its negation is tried only after the
\* first branch has failed, and then from exactly the pre-branch formula and
\* the pre-branch model plus the negated literal, no assignment of the
\* failed branch surviving; the model of the first successful branch is
\* returned without the other branch being explored, and the decision fails
\* only if both branches fail.
C23_BranchOrderAndBacktracking ==
    []BacktrackingState /\ [][BacktrackingStep]_vars

\* A model was returned by the second polarity of the outermost decision,
\* after the first polarity had made assignments and failed.
C23_Witness ==
    /\ pc = "done"
    /\ result # None
    /\ Len(trail) = 2
    /\ trail[2] = negate(trail[1])
    /\ Cardinality(DOMAIN Get(result)) >= 2
    /\ m # EmptyModel

\* C24 - Recursion depth bound: in every run of dpll on a formula f the
\* number of nested recursive calls never exceeds the number of distinct
\* variables occurring in f: the branching decisions on one path are on
\* different variables of f, and the variable of each is absent from the
\* formula passed to the recursive call.
C24_RecursionDepthBound ==
    /\ Len(stack) <= Cardinality(VarsOf(f))
    /\ \A i \in DOMAIN stack :
         /\ stack[i].lit.var \in VarsOf(f)
         /\ ~Occurs(stack[i].lit.var, cnf)
         /\ \A j \in DOMAIN stack : i < j => stack[i].lit.var # stack[j].lit.var

\* A path with as many nested calls as f has variables.
C24_Witness ==
    /\ pc = "call"
    /\ Len(stack) = Cardinality(VarsOf(f))
    /\ Len(stack) = NumVars

\* C25 - Termination: for every formula and every starting model, dpll
\* eventually returns a model or None: the unit-propagation loop, the
\* pure-literal loop, the simplification loop and the recursion all end.
C25_Termination == <>Done

\* The outermost call has returned after three recursive calls or more, both
\* polarities of a decision having been tried.
C25_Witness ==
    /\ pc = "done"
    /\ Len(trail) >= 3
    /\ \E i \in DOMAIN trail : \E j \in DOMAIN trail :
         i < j /\ trail[j] = negate(trail[i])

\* One call _assign(current_model, lit), and what any step does to the
\* values the model holds.
AssignLaw ==
    /\ (pc = "_assign" /\ pc' = "_assign_returned")
         => IF lit.var \notin DOMAIN current_model
            THEN /\ current_model' = WithTrue(current_model, lit)
                 /\ verdict'
            ELSE /\ current_model' = current_model
                 /\ verdict' <=> LitTrue(lit, current_model)
    /\ \A v \in DOMAIN current_model :
         /\ v \in DOMAIN current_model'
         /\ current_model'[v] = current_model[v]

\* The values the model started with are the values it has.
NeverOverwritten ==
    \A v \in DOMAIN m : v \in DOMAIN current_model /\ current_model[v] = m[v]

\* C26 - Assignment never overwrites: _assign(model, L) adds L's variable
\* with the value that makes L true when the variable is unassigned and
\* returns true; when the variable is assigned it leaves the model as it is
\* and returns true exactly when the existing value makes L true, and false
\* otherwise; a value, once set, never changes.
C26_AssignNeverOverwrites == []NeverOverwritten /\ [][AssignLaw]_vars

\* A call that reports a conflict on a model built by earlier calls.
C26_Witness ==
    /\ pc = "_assign_returned"
    /\ ~verdict
    /\ m = EmptyModel
    /\ Cardinality(DOMAIN current_model) = NumVars
    /\ current_model[lit.var] = lit.negated

\* The running call is past the application of its starting model and has
\* not returned.
Searching ==
    \/ pc \in {"unit", "pure", "pure_apply", "check", "choose", "try"}
    \/ pc = "call" /\ stack # <<>>

\* Every literal of the clause is false under the model.
Falsified(clause, model) == \A l \in clause : LitTrue(negate(l), model)

\* No assigned variable occurs in the formula, and the literal the next
\* step assigns is of an unassigned variable, so that _assign returns true.
AssignedVarsAbsent ==
    /\ Searching => DOMAIN current_model \cap VarsOf(cnf) = {}
    /\ pc = "unit"
         => LET unit == _find_unit_literal(cnf)
            IN  unit # None
                  => /\ Get(unit).var \notin DOMAIN current_model
                     /\ _assign(current_model, Get(unit)).ok
    /\ pc = "pure_apply"
         => \A l \in pures :
              /\ l.var \notin DOMAIN current_model
              /\ _assign(current_model, l).ok
    /\ (pc = "try" /\ idx < 2)
         => /\ lit.var \notin DOMAIN current_model
            /\ _assign(current_model, lit).ok
            /\ _assign(current_model, negate(lit)).ok

\* A rewrite rule ends the call only on a clause whose literals the model
\* has all made false, and a polarity of a branch literal is never skipped
\* (the continue statements of lines 305 and 308).
ConflictStep ==
    /\ (pc \in {"unit", "pure_apply"} /\ pc' = "return")
         => /\ result' = None
            /\ \E i \in DOMAIN cnf : Falsified(cnf[i], current_model')
    /\ pc = "try" => pc' # "try"

\* C27 - Assigned variables leave the formula: at every point of the search
\* after the starting model has been applied, no variable assigned in the
\* current model occurs in the current formula; so _assign never reports a
\* contradiction during unit propagation, pure-literal elimination or
\* branching, and every conflict of the search comes from a clause being
\* emptied.
C27_AssignedVarsLeaveFormula ==
    []AssignedVarsAbsent /\ [][ConflictStep]_vars

\* Unit propagation of a recursive call is about to empty a clause: the
\* unit literal's variable is unassigned, the model assigns variables of f.
C27_Witness ==
    /\ pc = "unit"
    /\ stack # <<>>
    /\ \E l \in Literals : \E i, j \in DOMAIN cnf : cnf[i] = {l} /\ cnf[j] = {negate(l)}
    /\ DOMAIN current_model \cap VarsOf(f) # {}
    /\ m # EmptyModel

\* No step of a call changes the formula or the mapping the caller gave.
InputsKept == f' = f /\ m' = m

\* A returned model gives every variable of the starting model the value
\* the starting model gives it.
ExtendsStartingModel ==
    (Done /\ result # None) => Agrees(Get(result), m)

\* C28 - The caller's inputs are not modified and the result extends the
\* starting model: dpll(f, m) leaves the mapping m and the formula f as they
\* were, whether it returns a model or None, and a returned model assigns
\* every variable of m the value m gives it.
C28_InputsUnmodified == []ExtendsStartingModel /\ [][InputsKept]_vars

\* A model was returned that adds assignments to a starting model, after
\* the call rewrote its formula and backtracked.
C28_Witness ==
    /\ pc = "done"
    /\ result # None
    /\ m # EmptyModel
    /\ DOMAIN Get(result) # DOMAIN m
    /\ DOMAIN m \cap VarsOf(f) # {}
    /\ Len(trail) >= 2

\* C29 - No invented variables: every variable assigned in a model returned
\* by dpll(f, m) occurs in a clause of f or is assigned in the starting
\* model m; with no starting model the variables of the returned model are
\* variables of f.
C29_NoInventedVariables ==
    (Done /\ result # None)
        => /\ \A v \in DOMAIN Get(result) : Occurs(v, f) \/ v \in DOMAIN m
           /\ m = EmptyModel => DOMAIN Get(result) \subseteq VarsOf(f)

\* A model was returned that assigns a variable of f next to a variable of
\* the starting model that f does not have, and that leaves a variable of
\* f unassigned.
C29_Witness ==
    /\ pc = "done"
    /\ result # None
    /\ DOMAIN m \ VarsOf(f) # {}
    /\ DOMAIN Get(result) \cap VarsOf(f) # {}
    /\ VarsOf(f) \ DOMAIN Get(result) # {}

=============================================================================
